---- MODULE Spec2Model ----
(***************************************************************************)
(* Model of tinygrad/runtime/ops_gpu.py: the OpenCL runtime (_CL context,  *)
(* CLBuffer, CLProgram and its __call__ launcher) as a state machine of    *)
(* one host thread and one in-order device command queue.                  *)
(***************************************************************************)
EXTENDS Integers, Sequences, FiniteSets, TLC

VARIABLES
  DEBUG,       \* helpers.DEBUG, the verbosity level
  OSX,         \* platform.system() == "Darwin"
  platforms,   \* cl.get_platforms(): sequence of [gpu |-> Seq(device), cpu |-> Seq(device)]
  CL_DEVICE,   \* getenv("CL_DEVICE", 0)
  CL,          \* the module-level singleton CL = _CL()
  bufs,        \* the CLBuffer objects the caller holds, by slot
  queue,       \* commands pending on CL.cl_queue, head first
  clock,       \* the device's profiling clock (ns)
  x,           \* the host array handed to _copyin
  y,           \* the host array handed to _copyout
  pc,          \* where the host thread is: "idle", or inside a blocking call
  e,           \* the event the host holds from its last kernel enqueue
  src,         \* history: per buffer, what the last issued copyin wrote, if still current
  prgs,        \* the CLProgram objects the caller holds, by kernel name
  ret          \* outcome of the host's last completed call

vars == <<DEBUG, OSX, platforms, CL_DEVICE, CL, bufs, queue, clock, x, y, pc, e, src, prgs, ret>>

----------------------------------------------------------------------------
(* Bounds *)

MaxPlatforms == 2      \* platforms enumerated
MaxDevPerType == 1     \* devices of one type on one platform
MaxIndex == 2          \* largest CL_DEVICE tried
MaxSize == 2           \* largest element count of a buffer
MaxQueue == 2          \* commands pending on the queue
MaxClock == 2          \* last tick of the device clock

\* Python's None, where the other values are objects
None == [none |-> TRUE]

Idle == [at |-> "idle"]

DebugLevels == {0, 1, 3, 5}
PrgDebugLevels == {0, 3, 5}

----------------------------------------------------------------------------
(* Python helpers *)

\* seq[i] with Python's indexing: negative i counts from the end
PyIndexOK(s, i) == (0 - Len(s)) <= i /\ i < Len(s)
PyIndex(s, i) == IF i >= 0 THEN s[i + 1] ELSE s[Len(s) + i + 1]

\* str.startswith
StartsWith(s, p) == Len(s) >= Len(p) /\ SubSeq(s, 1, Len(p)) = p

\* p in s, for strings
Contains(s, p) == \E i \in 1..(Len(s) - Len(p) + 1) : SubSeq(s, i, i + Len(p) - 1) = p

\* strings the code inspects, as character sequences
Str_image  == <<"i", "m", "a", "g", "e">>
Str_Adreno == <<"A", "d", "r", "e", "n", "o">>
Str_NVIDIA == <<"N", "V", "I", "D", "I", "A">>
Str_AMD    == <<"g", "f", "x">>
Str_QCOM   == <<"Q", "C", "O", "M", " ">> \o Str_Adreno
Str_pocl   == <<"p", "o", "c", "l">>

RECURSIVE Concat(_)
\* sum(list_of_lists, [])
Concat(ss) == IF ss = <<>> THEN <<>> ELSE Head(ss) \o Concat(Tail(ss))

RECURSIVE prod(_)
\* helpers.prod
prod(s) == IF s = <<>> THEN 1 ELSE Head(s) * prod(Tail(s))

----------------------------------------------------------------------------
(* _CL.__init__ *)

Device(p, t, k, n) == [platform |-> p, type |-> t, index |-> k, name |-> n]

GetDevices(ps, t) ==
  Concat([i \in 1..Len(ps) |-> IF t = "GPU" THEN ps[i].gpu ELSE ps[i].cpu])

NoCL == [status |-> "uninit", cl_ctx |-> None, cl_queue |-> None, printed |-> FALSE]

\* faulty variant: the CPU devices are candidates even when a GPU exists
Candidates_GPUAndCPU(ps) == GetDevices(ps, "GPU") \o GetDevices(ps, "CPU")

\* the candidate list of lines 17-18
Candidates(ps) ==
  LET gpus == GetDevices(ps, "GPU")
  IN  IF Len(gpus) = 0 THEN GetDevices(ps, "CPU") ELSE gpus

\* the value of CL after `CL = _CL()`, or the failed import
CLInitResult(ps, idx, dbg) ==
  LET devices == Candidates(ps)
      notice  == Len(devices) > 1 \/ dbg >= 1
  IN  IF ~PyIndexOK(devices, idx)
      THEN \* devices[idx] raises IndexError on line 19 or 20: the import fails
           [status |-> "IndexError", cl_ctx |-> None, cl_queue |-> None, printed |-> FALSE]
      ELSE [status |-> "ok",
            cl_ctx |-> [devices |-> <<PyIndex(devices, idx)>>],
            cl_queue |-> [profiling |-> TRUE, in_order |-> TRUE],
            printed |-> notice]

CLInit ==
  /\ CL.status = "uninit"
  /\ CL' = CLInitResult(platforms, CL_DEVICE, DEBUG)
  /\ UNCHANGED <<DEBUG, OSX, platforms, CL_DEVICE, bufs, queue, clock, x, y, pc, e, src, prgs, ret>>

\* a platform with g GPU devices and c CPU devices
Platform(p, g, c, gname) ==
  [gpu |-> [k \in 1..g |-> Device(p, "GPU", k, gname)],
   cpu |-> [k \in 1..c |-> Device(p, "CPU", k, Str_pocl)]]

PlatformLists ==
  UNION {
    { [p \in 1..n |-> Platform(p, cnt[p][1], cnt[p][2], Str_NVIDIA)] :
        cnt \in [1..n -> (0..MaxDevPerType) \X (0..MaxDevPerType)] } :
    n \in 0..MaxPlatforms }

----------------------------------------------------------------------------
(* Element types (tinygrad.helpers DType / ImageDType) *)

DType(itemsize, name) ==
  [isImage |-> FALSE, itemsize |-> itemsize, name |-> name, shape |-> <<>>]
ImageDType(itemsize, name, shape) ==
  [isImage |-> TRUE, itemsize |-> itemsize, name |-> name, shape |-> shape]

float32 == DType(4, <<"f", "l", "o", "a", "t">>)
float16 == DType(2, <<"h", "a", "l", "f">>)
int8    == DType(1, <<"c", "h", "a", "r">>)
imageh(shp) == ImageDType(2, Str_image \o <<"h">>, shp)
imagef(shp) == ImageDType(4, Str_image \o <<"f">>, shp)
\* an element type that declares a 2D shape with a byte width other than 2 or 4
imageb(shp) == ImageDType(1, Str_image \o <<"b">>, shp)

Shapes == {<<r, c>> : r \in 1..MaxSize, c \in 1..MaxSize}

LinearDTypes == {float32, float16, int8}
ImageDTypes == UNION {{imageh(s), imagef(s), imageb(s)} : s \in Shapes}
DTypes == LinearDTypes \cup ImageDTypes

Vals == {0, 1}
Arrays(n) == [1..n -> Vals]

----------------------------------------------------------------------------
(* CLBuffer *)

BufIds == {1, 2}

\* faulty variant: the dict also knows a one-byte channel type
ChannelTypes_WithByte == (1 :> "UNORM_INT8") @@ (2 :> "HALF_FLOAT") @@ (4 :> "FLOAT")

\* line 28: the dict from item size to channel type
ChannelTypes == (2 :> "HALF_FLOAT") @@ (4 :> "FLOAT")

\* line 29: cl.Image(CL.cl_ctx, READ_WRITE, fmt, shape=(dtype.shape[1], dtype.shape[0]))
Image(fmt, dtype, garbage) ==
  [kind |-> "image", format |-> fmt, shape |-> <<dtype.shape[2], dtype.shape[1]>>,
   data |-> garbage]

\* line 33: cl.Buffer(CL.cl_ctx, READ_WRITE, size * dtype.itemsize)
Buffer(size, dtype, garbage) ==
  [kind |-> "buffer", nbytes |-> size * dtype.itemsize, data |-> garbage]

\* line 30: the assert's condition
SizeMatches(size, dtype) == size = prod(dtype.shape)

\* CLBuffer.__init__(size, dtype): the exception raised, the native objects
\* created on the way (in order), and the constructed object (None if it raised)
CLBufferInit(size, dtype, garbage) ==
  IF dtype.isImage
  THEN IF dtype.itemsize \notin DOMAIN ChannelTypes
       THEN [raised |-> "KeyError", native |-> <<>>, obj |-> None]
       ELSE LET fmt == [order |-> "RGBA", type |-> ChannelTypes[dtype.itemsize]]
                buf == Image(fmt, dtype, garbage)
            IN  IF ~SizeMatches(size, dtype)
                THEN [raised |-> "AssertionError", native |-> <<"image">>, obj |-> None]
                ELSE [raised |-> "none", native |-> <<"image">>,
                      obj |-> [size |-> size, dtype |-> dtype, _buf |-> buf]]
  ELSE LET buf == Buffer(size, dtype, garbage)
       IN  [raised |-> "none", native |-> <<"buffer">>,
            obj |-> [size |-> size, dtype |-> dtype, _buf |-> buf]]

\* the caller constructs a CLBuffer and keeps it in slot b
Allocate(b, size, dtype) ==
  /\ CL.status = "ok"
  /\ pc = Idle
  /\ bufs[b] = None
  /\ \E garbage \in Arrays(size) :
       LET r == CLBufferInit(size, dtype, garbage)
       IN  /\ bufs' = [bufs EXCEPT ![b] = r.obj]
           /\ ret' = [op |-> "allocate", size |-> size, dtype |-> dtype,
                      raised |-> r.raised, native |-> r.native, val |-> r.obj]
  /\ UNCHANGED <<DEBUG, OSX, platforms, CL_DEVICE, CL, queue, clock, x, y, pc, e, src, prgs>>

\* any element type, any size
AllocateAny == \E b \in BufIds, size \in 1..MaxSize, dtype \in DTypes : Allocate(b, size, dtype)

----------------------------------------------------------------------------
(* CLProgram.__init__ *)

KernelNames == {"noop", "fill"}

\* what the native toolchain does with one program text or binary:
\*   create: whether cl.Program(ctx, devices, [binary]) accepts a binary blob
\*   build : "ok", or the class of the error clprogram.build() raises
\*   kernels: the entry points the built program defines
\*   utf8  : whether the compiled binary decodes as UTF-8 text
\*   disasm: whether disassemblers.adreno can be imported
AllPrograms ==
  [create : BOOLEAN, build : {"ok", "RuntimeError", "LogicError"},
   kernels : {KernelNames, {"noop"}}, utf8 : BOOLEAN, disasm : BOOLEAN]

\* the fields a construction never gets to look at are held at one value
Programs ==
  {p \in AllPrograms :
     /\ p.build # "ok" => p.kernels = KernelNames /\ p.utf8 /\ p.disasm
     /\ ~p.create => p.kernels = KernelNames /\ p.utf8 /\ p.disasm /\ p.build = "ok"}

ArgDTypes == {None, [types |-> <<"int32">>]}

\* lines 51-58: the exception the binary dump raises ("none" if it does not run or succeeds)
DumpBinary(prg, dbg, osx, ctx) ==
  IF dbg >= 5 /\ ~osx
  THEN IF Contains(ctx.devices[1].name, Str_Adreno)
       THEN IF prg.disasm THEN "none" ELSE "ImportError"
       ELSE IF prg.utf8 THEN "none" ELSE "UnicodeDecodeError"
  ELSE "none"

\* faulty variant: the except clause swallows the build error
Reraise_Swallowed(err) == "none"

\* line 49: the except clause raises the build error again
Reraise(err) == err

\* CLProgram.__init__(name, prg, binary, argdtypes): the exception raised, how often
\* build() ran, what was printed, and the constructed object (None if it raised)
CLProgramInit(name, prg, binary, argdtypes, dbg, osx, ctx) ==
  IF binary /\ ~prg.create
  THEN \* line 44: the native program cannot be created from the blob
       [raised |-> "LogicError", builds |-> 0, printed |-> <<>>, obj |-> None]
  ELSE IF prg.build # "ok"
  THEN \* lines 46-49
       [raised |-> Reraise(prg.build), builds |-> 1,
        printed |-> IF prg.build = "RuntimeError" /\ dbg >= 3 THEN <<"FAILED TO BUILD">> ELSE <<>>,
        obj |-> None]
  ELSE IF name \notin prg.kernels
  THEN \* line 50
       [raised |-> "AttributeError", builds |-> 1, printed |-> <<>>, obj |-> None]
  ELSE IF DumpBinary(prg, dbg, osx, ctx) # "none"
  THEN [raised |-> DumpBinary(prg, dbg, osx, ctx), builds |-> 1, printed |-> <<>>, obj |-> None]
  ELSE [raised |-> "none", builds |-> 1,
        printed |-> IF dbg >= 5 /\ ~osx THEN <<"binary">> ELSE <<>>,
        obj |-> [name |-> name, argdtypes |-> argdtypes,
                 clprg |-> [name |-> name,
                            \* line 59
                            scalar_arg_dtypes |-> IF argdtypes # None THEN argdtypes ELSE None]]]

\* the caller constructs a CLProgram and keeps it under its kernel name
Compile(name, prg, binary, argdtypes) ==
  /\ CL.status = "ok"
  /\ pc = Idle
  /\ LET r == CLProgramInit(name, prg, binary, argdtypes, DEBUG, OSX, CL.cl_ctx)
     IN  /\ prgs' = [prgs EXCEPT ![name] = IF r.raised = "none" THEN r.obj ELSE @]
         /\ ret' = [op |-> "compile", name |-> name, prg |-> prg, binary |-> binary,
                    argdtypes |-> argdtypes,
                    raised |-> r.raised, builds |-> r.builds, printed |-> r.printed,
                    val |-> r.obj]
  /\ UNCHANGED <<DEBUG, OSX, platforms, CL_DEVICE, CL, bufs, queue, clock, x, y, pc, e, src>>

CompileAny ==
  \E name \in KernelNames, prg \in Programs, binary \in BOOLEAN, argdtypes \in ArgDTypes :
    Compile(name, prg, binary, argdtypes)

----------------------------------------------------------------------------
(* The command queue: CLBuffer._copyin / _copyout, CLProgram.__call__, the device *)

\* one enqueued command: a "write" of host data into buf, a "read" of buf into y, or
\* a "kernel" with its native arguments; blocking: the host waits for it;
\* held: the host holds its event in e
Cmd(type, b, data, args, kern, blocking, held) ==
  [type |-> type, buf |-> b, data |-> data, args |-> args, kern |-> kern,
   blocking |-> blocking, held |-> held]

\* faulty variant: no assert
CanCopy_Always(dtype) == TRUE

\* lines 36 and 39: the assert's condition
CanCopy(dtype) == ~StartsWith(dtype.name, Str_image)

\* faulty variant: the host->device copy is enqueued blocking
CopyInBlocking_True == TRUE

\* line 37: is_blocking of the host->device copy
CopyInBlocking == FALSE
\* line 40: is_blocking of the device->host copy
CopyOutBlocking == TRUE

\* the host may go on once no command it blocks on is pending
CopyDone(q) == \A i \in 1..Len(q) : ~q[i].blocking

\* CLBuffer._copyin(x)
CopyIn(b) ==
  /\ CL.status = "ok"
  /\ pc = Idle
  /\ bufs[b] # None
  /\ Len(x) = bufs[b].size
  /\ Len(queue) < MaxQueue
  /\ IF ~CanCopy(bufs[b].dtype)
     THEN /\ ret' = [op |-> "copyin", buf |-> b, raised |-> "AssertionError"]
          /\ UNCHANGED <<queue, src, pc>>
     ELSE /\ queue' = Append(queue, Cmd("write", b, x, <<>>, "", CopyInBlocking, FALSE))
          /\ src' = [src EXCEPT ![b] = [val |-> x]]
          /\ IF CopyInBlocking
             THEN pc' = [at |-> "copyin", buf |-> b] /\ UNCHANGED ret
             ELSE pc' = pc /\ ret' = [op |-> "copyin", buf |-> b, raised |-> "none"]
  /\ UNCHANGED <<DEBUG, OSX, platforms, CL_DEVICE, CL, bufs, clock, x, y, e, prgs>>

\* CLBuffer._copyout(y), up to the enqueue
CopyOut(b) ==
  /\ CL.status = "ok"
  /\ pc = Idle
  /\ bufs[b] # None
  /\ Len(y) = bufs[b].size
  /\ Len(queue) < MaxQueue
  /\ IF ~CanCopy(bufs[b].dtype)
     THEN /\ ret' = [op |-> "copyout", buf |-> b, raised |-> "AssertionError"]
          /\ UNCHANGED <<queue, pc>>
     ELSE /\ queue' = Append(queue, Cmd("read", b, <<>>, <<>>, "", CopyOutBlocking, FALSE))
          /\ IF CopyOutBlocking
             THEN pc' = [at |-> "copyout", buf |-> b] /\ UNCHANGED ret
             ELSE pc' = pc /\ ret' = [op |-> "copyout", buf |-> b, raised |-> "none"]
  /\ UNCHANGED <<DEBUG, OSX, platforms, CL_DEVICE, CL, bufs, clock, x, y, e, src, prgs>>

\* a blocking copy returns
CopyReturn ==
  /\ pc.at \in {"copyin", "copyout"}
  /\ CopyDone(queue)
  /\ pc' = Idle
  /\ ret' = [op |-> pc.at, buf |-> pc.buf, raised |-> "none"]
  /\ UNCHANGED <<DEBUG, OSX, platforms, CL_DEVICE, CL, bufs, queue, clock, x, y, e, src, prgs>>

\* faulty variant: the ratio of one platform on every platform
OSX_TIMING_RATIO_Everywhere(osx) == [num |-> 125, den |-> 3]

\* line 12
OSX_TIMING_RATIO(osx) == IF osx THEN [num |-> 125, den |-> 3] ELSE [num |-> 1, den |-> 1]

\* line 68: ((e.profile.end - e.profile.start) * OSX_TIMING_RATIO) * 1e-9,
\* as the exact rational num / den * 10^exp10 seconds
Elapsed(ev, osx) ==
  [num |-> (ev.end - ev.start) * OSX_TIMING_RATIO(osx).num,
   den |-> OSX_TIMING_RATIO(osx).den, exp10 |-> 0 - 9]

\* faulty variant: no fence before the timestamps are read
Finished_NoFence(q) == TRUE

\* line 67: CL.cl_queue.finish() returns once every enqueued command has completed
Finished(q) == q = <<>>

\* whether a call with this `wait` goes through lines 67-68
Waits(wait) == wait

\* line 65: a CLBuffer argument is passed as its native object
Resolve(args) == [i \in DOMAIN args |-> bufs[args[i]]._buf.kind]

\* CLProgram.__call__(global_size, local_size, *bufs, wait), up to the enqueue
Launch(k, args, wait) ==
  /\ CL.status = "ok"
  /\ pc = Idle
  /\ prgs[k] # None
  /\ \A i \in DOMAIN args : bufs[args[i]] # None
  /\ Len(queue) < MaxQueue
  /\ queue' = Append([i \in 1..Len(queue) |-> [queue[i] EXCEPT !.held = FALSE]],
                     Cmd("kernel", args[1], <<>>, Resolve(args), prgs[k].clprg.name, FALSE, TRUE))
  /\ e' = [start |-> 0 - 1, end |-> 0 - 1]
  /\ src' = [src EXCEPT ![args[1]] = IF k = "fill" THEN None ELSE @]
  /\ IF Waits(wait)
     THEN pc' = [at |-> "finish"] /\ UNCHANGED ret
     ELSE pc' = pc /\ ret' = [op |-> "launch", wait |-> FALSE, raised |-> "none", val |-> None]
  /\ UNCHANGED <<DEBUG, OSX, platforms, CL_DEVICE, CL, bufs, clock, x, y, prgs>>

\* a launch with wait=True returns
LaunchReturn ==
  /\ pc.at = "finish"
  /\ Finished(queue)
  /\ pc' = Idle
  /\ ret' = [op |-> "launch", wait |-> TRUE, raised |-> "none", val |-> Elapsed(e, OSX)]
  /\ UNCHANGED <<DEBUG, OSX, platforms, CL_DEVICE, CL, bufs, queue, clock, x, y, e, src, prgs>>

\* the caller changes its array x
HostWrite ==
  /\ pc = Idle
  /\ \E v \in Arrays(Len(x)) : v # x /\ x' = v
  /\ src' = [b \in BufIds |-> None]
  /\ UNCHANGED <<DEBUG, OSX, platforms, CL_DEVICE, CL, bufs, queue, clock, y, pc, e, prgs, ret>>

\* faulty variant: an out-of-order queue, the device runs the newest pending command
NextCommand_Newest(q) == Len(q)

\* line 21: the queue is in order: the device runs the oldest pending command
NextCommand(q) == 1

\* what a pending host->device copy can read from the host array: the array as it
\* was at the enqueue or as it is now, element by element
Wire(snapshot, now) ==
  {d \in Arrays(Len(snapshot)) :
     \A i \in 1..Len(snapshot) : d[i] = snapshot[i] \/ (i <= Len(now) /\ d[i] = now[i])}

\* what a kernel leaves in its first buffer argument
KernelEffect(kern, data) == IF kern = "fill" THEN [i \in DOMAIN data |-> 1] ELSE data

\* the device runs one command to completion
Execute ==
  /\ queue # <<>>
  /\ LET i == NextCommand(queue)
         c == queue[i]
     IN  /\ queue' = SubSeq(queue, 1, i - 1) \o SubSeq(queue, i + 1, Len(queue))
         /\ \E start \in clock..MaxClock : \E end \in start..MaxClock :
              /\ clock' = end
              /\ e' = IF c.held THEN [e EXCEPT !.start = start, !.end = end] ELSE e
         /\ CASE c.type = "write" ->
                   /\ \E d \in Wire(c.data, x) : bufs' = [bufs EXCEPT ![c.buf]._buf.data = d]
                   /\ y' = y
              [] c.type = "read" ->
                   /\ y' = bufs[c.buf]._buf.data
                   /\ bufs' = bufs
              [] c.type = "kernel" ->
                   /\ bufs' = [bufs EXCEPT ![c.buf]._buf.data = KernelEffect(c.kern, @)]
                   /\ y' = y
  /\ UNCHANGED <<DEBUG, OSX, platforms, CL_DEVICE, CL, x, pc, src, prgs, ret>>

----------------------------------------------------------------------------
(* Specifications *)

NoRet == [op |-> "none"]

\* module import: any platforms, any CL_DEVICE, any verbosity
InitCL ==
  /\ DEBUG \in DebugLevels
  /\ OSX = FALSE
  /\ platforms \in PlatformLists
  /\ CL_DEVICE \in (0 - 1)..MaxIndex
  /\ CL = NoCL
  /\ bufs = [b \in BufIds |-> None]
  /\ queue = <<>>
  /\ clock = 0
  /\ x = <<>>
  /\ y = <<>>
  /\ pc = Idle
  /\ e = None
  /\ src = [b \in BufIds |-> None]
  /\ prgs = [k \in KernelNames |-> None]
  /\ ret = NoRet

SpecCL == InitCL /\ [][CLInit]_vars

\* after the import succeeded on one GPU device called gname
Imported(gname) ==
  /\ platforms = <<Platform(1, 1, 0, gname)>>
  /\ CL_DEVICE = 0
  /\ CL = CLInitResult(platforms, CL_DEVICE, DEBUG)
  /\ bufs = [b \in BufIds |-> None]
  /\ queue = <<>>
  /\ clock = 0
  /\ pc = Idle
  /\ e = None
  /\ src = [b \in BufIds |-> None]
  /\ ret = NoRet

\* buffer construction, for every element type and size
InitAlloc ==
  /\ DEBUG = 0
  /\ OSX = FALSE
  /\ Imported(Str_NVIDIA)
  /\ x = <<>>
  /\ y = <<>>
  /\ prgs = [k \in KernelNames |-> None]

SpecAlloc == InitAlloc /\ [][AllocateAny]_vars

\* program construction, for every verbosity, host platform and device
DeviceNames == {Str_NVIDIA, Str_AMD, Str_QCOM}

InitPrg ==
  /\ DEBUG \in PrgDebugLevels
  /\ OSX \in BOOLEAN
  /\ \E gname \in DeviceNames : Imported(gname)
  /\ x = <<>>
  /\ y = <<>>
  /\ prgs = [k \in KernelNames |-> None]

SpecPrg == InitPrg /\ [][CompileAny]_vars

\* the running system: one buffer, two built kernels, the queue
GoodProgram == [create |-> TRUE, build |-> "ok", kernels |-> KernelNames,
                utf8 |-> TRUE, disasm |-> TRUE]

\* the one buffer of the running system: RunSize elements, linear or image-backed
RunShape == <<1, 2>>
RunSize == prod(RunShape)
RunBufIds == {1}
RunDTypes == {float32, imagef(RunShape)}

AllocateRun == \E b \in RunBufIds, dtype \in RunDTypes : Allocate(b, RunSize, dtype)

Init ==
  /\ DEBUG = 0
  /\ OSX \in BOOLEAN
  /\ Imported(Str_NVIDIA)
  /\ x \in Arrays(RunSize)
  /\ y = [i \in 1..RunSize |-> 0]
  /\ prgs = [k \in KernelNames |->
               CLProgramInit(k, GoodProgram, FALSE, None, DEBUG, OSX, CL.cl_ctx).obj]

Next ==
  \/ AllocateRun
  \/ \E b \in RunBufIds : CopyIn(b)
  \/ \E b \in RunBufIds : CopyOut(b)
  \/ CopyReturn
  \/ \E k \in KernelNames, b \in RunBufIds, wait \in BOOLEAN : Launch(k, <<b>>, wait)
  \/ LaunchReturn
  \/ HostWrite
  \/ Execute

Spec == Init /\ [][Next]_vars

----------------------------------------------------------------------------
(* Claims *)

IsImageBacked(obj) == obj # None /\ obj._buf.kind = "image"
IsLinear(obj) == obj # None /\ obj._buf.kind = "buffer"

\* C1: an allocate whose element type is an image type with size # rows*cols fails,
\* and no native object (image or linear buffer) was created before the failure.
C1_NoAllocationBeforeFailure ==
  (/\ ret.op = "allocate"
   /\ ret.dtype.isImage
   /\ ret.size # ret.dtype.shape[1] * ret.dtype.shape[2])
  => (ret.raised # "none" /\ ret.val = None /\ ret.native = <<>>)

\* C7 as stated: a produced buffer is image-backed exactly for a shaped element type
\* of byte width 2 or 4, and every other element type (a shaped one of another byte
\* width included) gets a linear buffer of size * itemsize bytes.
C7_LinearForEveryOtherType ==
  ret.op = "allocate" =>
    LET image == ret.dtype.isImage /\ ret.dtype.itemsize \in {2, 4}
    IN  /\ ret.val # None => (IsImageBacked(ret.val) <=> image)
        /\ ~image => (IsLinear(ret.val) /\ ret.val._buf.nbytes = ret.size * ret.dtype.itemsize)

\* C7 amended: allocate returns an image-backed buffer exactly for an image type of
\* byte width 2 or 4 with size = rows*cols, a linear buffer of size * itemsize bytes
\* exactly for a non-image type, and for an image type of any other byte width it
\* raises (KeyError) having created nothing.
C7_ImageOrLinearOrKeyError ==
  ret.op = "allocate" =>
    /\ IsImageBacked(ret.val) <=>
         (/\ ret.dtype.isImage
          /\ ret.dtype.itemsize \in {2, 4}
          /\ ret.size = ret.dtype.shape[1] * ret.dtype.shape[2])
    /\ IsLinear(ret.val) <=> ~ret.dtype.isImage
    /\ IsLinear(ret.val) => ret.val._buf.nbytes = ret.size * ret.dtype.itemsize
    /\ (ret.dtype.isImage /\ ret.dtype.itemsize \notin {2, 4}) =>
         (ret.raised = "KeyError" /\ ret.val = None /\ ret.native = <<>>)

\* C7 witness: a shaped element type of byte width 1 was tried, and one of width 2 is held
C7_Witness ==
  /\ ret.op = "allocate" /\ ret.dtype.isImage /\ ret.dtype.itemsize = 1
  /\ ret.raised = "KeyError"
  /\ \E b \in BufIds : IsImageBacked(bufs[b]) /\ bufs[b]._buf.format.type = "HALF_FLOAT"

\* C2: on an image-backed buffer every copyIn and copyOut fails, leaves the host
\* unblocked and enqueues nothing, whatever is pending and whatever the contents.
C2_ImageCopyFails ==
  [][\A b \in BufIds :
       (IsImageBacked(bufs[b]) /\ (CopyIn(b) \/ CopyOut(b)))
       => (/\ ret'.op \in {"copyin", "copyout"}
           /\ ret'.raised = "AssertionError"
           /\ queue' = queue
           /\ pc' = Idle)]_vars

\* C2 witness: a copy on an image-backed buffer has failed while a kernel on it is pending
C2_Witness ==
  /\ ret.op \in {"copyin", "copyout"} /\ ret.raised = "AssertionError"
  /\ IsImageBacked(bufs[ret.buf])
  /\ queue # <<>>

\* C3: when a copyOut returns and the last write issued to its buffer was a copyIn of
\* x, with x not modified since, y equals that x element for element.
C3_RoundTrip ==
  (/\ pc = Idle
   /\ ret.op = "copyout" /\ ret.raised = "none"
   /\ src[ret.buf] # None)
  => (/\ Len(y) = Len(src[ret.buf].val)
      /\ \A i \in 1..Len(y) : y[i] = src[ret.buf].val[i])

\* C3 witness: a round trip of an array that differs from what y held before
C3_Witness ==
  /\ pc = Idle
  /\ ret.op = "copyout" /\ ret.raised = "none"
  /\ src[ret.buf] # None
  /\ y = x /\ y = <<0, 1>>

\* C4: the host is blocked only inside copyOut and launch(wait=true), which do block;
\* copyIn and launch(wait=false) return at once with their own command still pending
\* behind whatever was pending, and launch(wait=false) returns no result.
C4_BlockingPoints ==
  [][/\ pc' # Idle => pc'.at \in {"copyout", "finish"}
     /\ \A b \in BufIds :
          /\ CopyIn(b) =>
               /\ pc' = Idle
               /\ ret'.op = "copyin"
               /\ ret'.raised = "none" =>
                    (Len(queue') = Len(queue) + 1 /\ queue'[Len(queue')].type = "write")
          /\ (CopyOut(b) /\ ~IsImageBacked(bufs[b])) => pc'.at = "copyout"
          /\ \A k \in KernelNames :
               /\ Launch(k, <<b>>, FALSE) =>
                    /\ pc' = Idle
                    /\ ret'.op = "launch" /\ ret'.val = None
                    /\ Len(queue') = Len(queue) + 1
                    /\ queue'[Len(queue')].type = "kernel"
               /\ Launch(k, <<b>>, TRUE) => pc'.at = "finish"
     /\ (pc.at = "copyout" /\ pc' = Idle) => \A i \in 1..Len(queue) : queue[i].type # "read"
     /\ (pc.at = "finish" /\ pc' = Idle) => queue = <<>>]_vars

\* C4 witness: copyIn has returned with its transfer pending behind an earlier kernel
C4_Witness ==
  /\ pc = Idle
  /\ ret.op = "copyin" /\ ret.raised = "none"
  /\ Len(queue) = 2 /\ queue[1].type = "kernel" /\ queue[2].type = "write"

\* C5: when launch(wait=true) has returned, the queue is empty and the duration is
\* taken from the start and end timestamps the device recorded for that dispatch.
C5_FenceThenOwnTimestamps ==
  (pc = Idle /\ ret.op = "launch" /\ ret.wait)
  => (/\ queue = <<>>
      /\ 0 <= e.start /\ e.start <= e.end /\ e.end <= clock
      /\ ret.val # None
      /\ ret.val.num * OSX_TIMING_RATIO(OSX).den
           = (e.end - e.start) * OSX_TIMING_RATIO(OSX).num * ret.val.den)

\* C5 witness: a timed launch returned after earlier commands had used device time
C5_Witness ==
  /\ pc = Idle /\ ret.op = "launch" /\ ret.wait
  /\ e.start > 0 /\ e.end > e.start
  /\ ret.val.num > 0

\* C9: the duration of a timed launch is (end - start) ns times the multiplier, in
\* seconds; the multiplier is 1 off the designated platform (125/3 on it), and the
\* duration is not negative when end >= start.
C9_Duration ==
  (pc = Idle /\ ret.op = "launch" /\ ret.wait)
  => (/\ ret.val.exp10 = 0 - 9
      /\ ~OSX => (ret.val.num = e.end - e.start /\ ret.val.den = 1)
      /\ OSX => (ret.val.num = 125 * (e.end - e.start) /\ ret.val.den = 3)
      /\ e.end >= e.start => (ret.val.num >= 0 /\ ret.val.den > 0))

\* C9 witness: a timed launch off the designated platform that took device time
C9_Witness ==
  /\ pc = Idle /\ ret.op = "launch" /\ ret.wait
  /\ ~OSX
  /\ ret.val.num = 2 /\ ret.val.den = 1

\* whether the construction got as far as build()
BuildReached(r) == r.binary => r.prg.create

\* C6: when the native build fails the constructor raises that build error, build()
\* ran exactly once, no entry point is resolved and no object results; the programs
\* the caller holds all have their entry point.
C6_FailedBuild ==
  /\ (ret.op = "compile" /\ BuildReached(ret) /\ ret.prg.build # "ok")
     => (/\ ret.raised = ret.prg.build
         /\ ret.builds = 1
         /\ ret.val = None)
  /\ \A k \in KernelNames : prgs[k] # None => prgs[k].clprg.name = k

\* C6 witness: a build failed after an earlier construction of the same name succeeded
C6_Witness ==
  /\ ret.op = "compile" /\ BuildReached(ret) /\ ret.prg.build = "RuntimeError"
  /\ ret.raised = "RuntimeError"
  /\ prgs[ret.name] # None

\* C10: when the build succeeds and the source defines the name, construction
\* succeeds with the entry point resolved and the scalar argument types fixed when
\* given, at every verbosity level, on every host platform and device.
C10_DiagnosticsHarmless ==
  (/\ ret.op = "compile"
   /\ BuildReached(ret) /\ ret.prg.build = "ok"
   /\ ret.name \in ret.prg.kernels)
  => (/\ ret.raised = "none"
      /\ ret.val # None
      /\ ret.val.clprg.name = ret.name
      /\ ret.argdtypes # None => ret.val.clprg.scalar_arg_dtypes = ret.argdtypes)

\* the devices of one type, over all platforms
DevicesOfType(t) ==
  {d \in UNION {{platforms[p].gpu[k] : k \in 1..Len(platforms[p].gpu)}
                  \cup {platforms[p].cpu[k] : k \in 1..Len(platforms[p].cpu)} :
                p \in 1..Len(platforms)} : d.type = t}

\* how many devices of d's type are enumerated before d
Before(d) ==
  Cardinality({o \in DevicesOfType(d.type) :
                 o.platform < d.platform \/ (o.platform = d.platform /\ o.index < d.index)})

\* the candidates: the GPU devices, or the CPU devices when there is no GPU device
CandidateSet ==
  IF DevicesOfType("GPU") # {} THEN DevicesOfType("GPU") ELSE DevicesOfType("CPU")

\* C8 as stated: without any device construction fails with no context and no
\* queue; otherwise the context holds exactly the candidate at the selection index.
C8_BoundWheneverDevicesExist ==
  CL.status # "uninit" =>
    /\ CandidateSet = {} => (CL.status # "ok" /\ CL.cl_ctx = None /\ CL.cl_queue = None)
    /\ CandidateSet # {} =>
         /\ CL.status = "ok"
         /\ Len(CL.cl_ctx.devices) = 1
         /\ CL.cl_ctx.devices[1] \in CandidateSet

\* C8 amended: construction fails, with no context and no queue, when there is no
\* device or the selection index is outside the candidate list (Python indexing:
\* -n <= index < n); otherwise the context holds exactly one device, the candidate
\* at that index, a CPU device only when no GPU device exists.
C8_BoundWhenIndexInRange ==
  CL.status # "uninit" =>
    LET n == Cardinality(CandidateSet)
        inRange == (0 - n) <= CL_DEVICE /\ CL_DEVICE < n
    IN  /\ ~inRange => (CL.status # "ok" /\ CL.cl_ctx = None /\ CL.cl_queue = None)
        /\ inRange =>
             /\ CL.status = "ok"
             /\ CL.cl_queue # None /\ CL.cl_queue.profiling
             /\ Len(CL.cl_ctx.devices) = 1
             /\ CL.cl_ctx.devices[1] \in CandidateSet
             /\ Before(CL.cl_ctx.devices[1]) = IF CL_DEVICE >= 0 THEN CL_DEVICE ELSE n + CL_DEVICE

\* C8 witness: no GPU device anywhere, the second CPU candidate selected
C8_Witness ==
  /\ CL.status = "ok"
  /\ CL_DEVICE = 1
  /\ CL.cl_ctx.devices[1].type = "CPU"

====
